---- MODULE Spec2Model ----
(***************************************************************************)
(* Expression evaluator (src/main.py): tokenize, infix_to_postfix          *)
(* (shunting yard), evaluate_postfix, evaluate_expression, and the GUI's   *)
(* insert_sample / clear_all on the input field.                           *)
(*                                                                         *)
(* A text is a sequence of one-character strings.  A token is the Python   *)
(* string the tokenizer appends, kept as its sequence of characters, so    *)
(* the unary minus token 'u-' is <<"u", "-">>.  A Python list is a         *)
(* sequence whose last element is the top (append / pop).                  *)
(*                                                                         *)
(* A float is modelled by the exact rational it stands for, [num, den] in  *)
(* lowest terms; rounding is not modelled.  A rational whose numerator or  *)
(* denominator leaves MaxMag, and an irrational power, is OutOfRange: the  *)
(* evaluation step that would produce it is not taken.                     *)
(***************************************************************************)
EXTENDS Integers, Sequences, FiniteSets, TLC

VARIABLES expr, pc, i, tokens, k, output, opstack, postfix, stack, trace,
          value, err, input_var

vars == <<expr, pc, i, tokens, k, output, opstack, postfix, stack, trace,
          value, err, input_var>>

engine == <<expr, pc, i, tokens, k, output, opstack, postfix, stack, trace,
            value, err>>

(***************************************************************************)
(* Bounds of the model.                                                    *)
(***************************************************************************)
\* longest text drawn exhaustively over Alphabet
MaxLen == 4
\* largest numerator / denominator a modelled float may have
MaxMag == 1000000
\* longest text the user types into the input field
MaxTyped == 6

(***************************************************************************)
(* Characters.                                                             *)
(***************************************************************************)
\* the decimal digits; of the digits of other scripts, which isdigit() and
\* float() treat alike, none is modelled
Digits == {"0", "1", "2", "3", "4", "5", "6", "7", "8", "9"}

\* stands for a character such as a superscript two, for which isdigit()
\* holds and which float() rejects
Superscript == "sup2"

isdigit(ch) == ch \in Digits \cup {Superscript}

\* " " stands for every whitespace character
isspace(ch) == ch = " "

DigitVal(ch) ==
    CASE ch = "0" -> 0 [] ch = "1" -> 1 [] ch = "2" -> 2 [] ch = "3" -> 3
      [] ch = "4" -> 4 [] ch = "5" -> 5 [] ch = "6" -> 6 [] ch = "7" -> 7
      [] ch = "8" -> 8 [] ch = "9" -> 9

Last(s) == s[Len(s)]

Front(s) == SubSeq(s, 1, Len(s) - 1)

RECURSIVE Count(_, _)
Count(s, ch) ==
    IF s = <<>> THEN 0
    ELSE (IF Head(s) = ch THEN 1 ELSE 0) + Count(Tail(s), ch)

(***************************************************************************)
(* Floats as exact rationals.                                              *)
(***************************************************************************)
Abs(x) == IF x < 0 THEN -x ELSE x

RECURSIVE GCD(_, _)
GCD(a, b) == IF b = 0 THEN a ELSE GCD(b, a % b)

OutOfRange == [num |-> 0, den |-> 0]

Zero == [num |-> 0, den |-> 1]

One == [num |-> 1, den |-> 1]

InRange(v) == v.den > 0 /\ Abs(v.num) <= MaxMag /\ v.den <= MaxMag

\* x * y can be computed and stays within MaxMag
Fits(x, y) == x = 0 \/ y = 0 \/ Abs(x) <= MaxMag \div Abs(y)

\* n / d in lowest terms, d > 0
Rat(n, d) ==
    LET g == GCD(Abs(n), d)
        v == [num |-> n \div g, den |-> d \div g]
    IN  IF InRange(v) THEN v ELSE OutOfRange

Neg(a) == [num |-> -a.num, den |-> a.den]

Add(a, b) ==
    LET g == GCD(a.den, b.den)
        fa == b.den \div g
        fb == a.den \div g
    IN  IF Fits(a.num, fa) /\ Fits(b.num, fb) /\ Fits(a.den, fa)
        THEN Rat(a.num * fa + b.num * fb, a.den * fa)
        ELSE OutOfRange

Sub(a, b) == Add(a, Neg(b))

Mul(a, b) ==
    LET g1 == GCD(Abs(a.num), b.den)
        g2 == GCD(Abs(b.num), a.den)
        n1 == a.num \div g1
        n2 == b.num \div g2
        d1 == a.den \div g2
        d2 == b.den \div g1
    IN  IF Fits(n1, n2) /\ Fits(d1, d2)
        THEN Rat(n1 * n2, d1 * d2)
        ELSE OutOfRange

\* 1 / a, a # 0
Inv(a) == IF a.num < 0 THEN [num |-> -a.den, den |-> -a.num]
                       ELSE [num |-> a.den, den |-> a.num]

Div(a, b) == Mul(a, Inv(b))

IsInt(a) == a.den = 1

RECURSIVE PowAcc(_, _, _)
PowAcc(acc, a, e) ==
    IF e = 0 \/ acc = OutOfRange THEN acc
    ELSE PowAcc(Mul(acc, a), a, e - 1)

RECURSIVE Log2Floor(_)
Log2Floor(n) == IF n < 2 THEN 0 ELSE 1 + Log2Floor(n \div 2)

\* |a| ^ e is at least 2 ^ 1024, beyond the largest double
Overflows(a, e) ==
    Log2Floor(Abs(a.num) \div a.den) * e >= 1024

(***************************************************************************)
(* float(token) and is_number.                                             *)
(***************************************************************************)
RECURSIVE DigitsOf(_)
DigitsOf(s) ==
    IF s = <<>> THEN <<>>
    ELSE IF Head(s) \in Digits THEN <<Head(s)>> \o DigitsOf(Tail(s))
    ELSE DigitsOf(Tail(s))

RECURSIVE NatOf(_)
NatOf(ds) == IF ds = <<>> THEN 0 ELSE 10 * NatOf(Front(ds)) + DigitVal(Last(ds))

RECURSIVE Pow10(_)
Pow10(n) == IF n = 0 THEN 1 ELSE 10 * Pow10(n - 1)

\* number of characters after the decimal point
RECURSIVE Decimals(_)
Decimals(s) ==
    IF s = <<>> THEN 0
    ELSE IF Head(s) = "." THEN Len(s) - 1
    ELSE Decimals(Tail(s))

\* float() accepts a run of digits with at most one point and a digit
is_number(token) ==
    /\ \A n \in 1..Len(token) : token[n] \in Digits \cup {"."}
    /\ Count(token, ".") <= 1
    /\ \E n \in 1..Len(token) : token[n] \in Digits

float(token) ==
    IF Len(token) > 9 THEN OutOfRange
    ELSE Rat(NatOf(DigitsOf(token)), Pow10(Decimals(token)))

(***************************************************************************)
(* Errors: the exception class and the fixed part of its message.          *)
(***************************************************************************)
None == <<>>

ValueError(msg) == <<"ValueError", msg>>

ZeroDivisionError(msg) == <<"ZeroDivisionError", msg>>

OverflowError(msg) == <<"OverflowError", msg>>

(***************************************************************************)
(* tokenize: one pass of its while loop.                                   *)
(***************************************************************************)
UMINUS == <<"u", "-">>

\* expr[i] is a digit or a point up to (not including) Python index RunEnd
RECURSIVE RunEnd(_, _)
RunEnd(e, j) ==
    IF j < Len(e) /\ (isdigit(e[j + 1]) \/ e[j + 1] = ".")
    THEN RunEnd(e, j + 1)
    ELSE j

UnaryContext ==
    {<<"+">>, <<"-">>, <<"*">>, <<"/">>, <<"^">>, <<"(">>, UMINUS}

\* mutant: 'u-' is missing from the tuple of preceding tokens
is_unary_no_uminus(toks) ==
    toks = <<>> \/ Last(toks) \in UnaryContext \ {UMINUS}

\* the '-' at hand is a unary minus
is_unary(toks) == toks = <<>> \/ Last(toks) \in UnaryContext

\* mutant: an unsupported character is skipped like whitespace
unsupported_skipped(i0, toks) == [i |-> i0 + 1, tokens |-> toks, err |-> None]

unsupported(i0, toks) ==
    [i |-> i0, tokens |-> toks, err |-> ValueError("Unsupported character")]

tokenize_body(e, i0, toks) ==
    LET ch == e[i0 + 1] IN
    IF isspace(ch)
    THEN [i |-> i0 + 1, tokens |-> toks, err |-> None]
    ELSE IF isdigit(ch) \/ ch = "."
    THEN LET j == RunEnd(e, i0 + 1)
             num_str == SubSeq(e, i0 + 1, j)
         IN  IF Count(num_str, ".") > 1
             THEN [i |-> j, tokens |-> toks,
                   err |-> ValueError("Invalid numeric literal")]
             ELSE [i |-> j, tokens |-> Append(toks, num_str), err |-> None]
    ELSE IF ch \in {"+", "-", "*", "/", "^", "(", ")"}
    THEN IF ch = "-" /\ is_unary(toks)
         THEN [i |-> i0 + 1, tokens |-> Append(toks, UMINUS), err |-> None]
         ELSE [i |-> i0 + 1, tokens |-> Append(toks, <<ch>>), err |-> None]
    ELSE unsupported(i0, toks)

(***************************************************************************)
(* infix_to_postfix: the operator table, one pass of its for loop, and the *)
(* final unloading of the stack.                                           *)
(***************************************************************************)
OpTokens == {<<"+">>, <<"-">>, <<"*">>, <<"/">>, <<"^">>, UMINUS}

prec(o) ==
    CASE o \in {<<"+">>, <<"-">>} -> 2
      [] o \in {<<"*">>, <<"/">>} -> 3
      [] o = <<"^">> -> 4
      [] o = UMINUS -> 5

assoc(o) == IF o \in {<<"^">>, UMINUS} THEN "R" ELSE "L"

OPERATORS == [o \in OpTokens |-> [prec |-> prec(o), assoc |-> assoc(o)]]

\* mutant: a right-associative operator pops its equals, like a left one
pops_equal(o1, o2) == OPERATORS[o1].prec <= OPERATORS[o2].prec

\* the stack top o2 goes to the output before o1 is pushed
pops(o1, o2) ==
    LET p1 == OPERATORS[o1].prec
        p2 == OPERATORS[o2].prec
    IN  \/ OPERATORS[o1].assoc = "L" /\ p1 <= p2
        \/ OPERATORS[o1].assoc = "R" /\ p1 < p2

RECURSIVE pop_operators(_, _, _)
pop_operators(o1, out, st) ==
    IF st # <<>> /\ Last(st) \in DOMAIN OPERATORS /\ pops(o1, Last(st))
    THEN pop_operators(o1, Append(out, Last(st)), Front(st))
    ELSE [output |-> out, stack |-> st]

RECURSIVE pop_to_paren(_, _)
pop_to_paren(out, st) ==
    IF st # <<>> /\ Last(st) # <<"(">>
    THEN pop_to_paren(Append(out, Last(st)), Front(st))
    ELSE [output |-> out, stack |-> st]

infix_to_postfix_body(tok, out, st) ==
    IF is_number(tok)
    THEN [output |-> Append(out, tok), stack |-> st, err |-> None]
    ELSE IF tok \in DOMAIN OPERATORS
    THEN LET r == pop_operators(tok, out, st)
         IN  [output |-> r.output, stack |-> Append(r.stack, tok),
              err |-> None]
    ELSE IF tok = <<"(">>
    THEN [output |-> out, stack |-> Append(st, tok), err |-> None]
    ELSE IF tok = <<")">>
    THEN LET r == pop_to_paren(out, st)
         IN  IF r.stack = <<>>
             THEN [output |-> r.output, stack |-> r.stack,
                   err |-> ValueError("Mismatched parentheses")]
             ELSE [output |-> r.output, stack |-> Front(r.stack),
                   err |-> None]
    ELSE [output |-> out, stack |-> st,
          err |-> ValueError("Unknown token in infix_to_postfix")]

\* mutant: the stack is unloaded without looking for a parenthesis
RECURSIVE infix_to_postfix_end_unchecked(_, _)
infix_to_postfix_end_unchecked(out, st) ==
    IF st = <<>>
    THEN [output |-> out, stack |-> st, err |-> None]
    ELSE infix_to_postfix_end_unchecked(Append(out, Last(st)), Front(st))

RECURSIVE infix_to_postfix_end(_, _)
infix_to_postfix_end(out, st) ==
    IF st = <<>>
    THEN [output |-> out, stack |-> st, err |-> None]
    ELSE IF Last(st) \in {<<"(">>, <<")">>}
    THEN [output |-> out, stack |-> Front(st),
          err |-> ValueError("Mismatched parentheses")]
    ELSE infix_to_postfix_end(Append(out, Last(st)), Front(st))

(***************************************************************************)
(* apply_op and one pass of evaluate_postfix's for loop.                   *)
(***************************************************************************)
\* a ^ b where it is defined
pow_value(a, b) ==
    IF b = Zero \/ a = One
    THEN [val |-> One, err |-> None]
    ELSE IF a = Zero
    THEN [val |-> Zero, err |-> None]
    ELSE IF ~IsInt(b)
    THEN [val |-> OutOfRange, err |-> None]
    ELSE IF a = Neg(One)
    THEN [val |-> IF b.num % 2 = 0 THEN One ELSE a, err |-> None]
    ELSE LET base == IF b.num < 0 THEN Inv(a) ELSE a
             e == Abs(b.num)
         IN  IF Overflows(base, e)
             THEN [val |-> OutOfRange,
                   err |-> OverflowError("math range error")]
             ELSE [val |-> PowAcc(One, base, e), err |-> None]

\* mutant: a ** b, which divides by zero for a zero base and a negative
\* exponent, and gives a complex number for a negative base and a
\* fractional exponent
operator_pow(a, b) ==
    IF a = Zero /\ b.num < 0
    THEN [val |-> OutOfRange,
          err |-> ZeroDivisionError("0.0 cannot be raised to a negative power")]
    ELSE IF a.num < 0 /\ ~IsInt(b)
    THEN [val |-> OutOfRange, err |-> None]
    ELSE pow_value(a, b)

\* math.pow(a, b)
math_pow(a, b) ==
    IF (a = Zero /\ b.num < 0) \/ (a.num < 0 /\ ~IsInt(b))
    THEN [val |-> OutOfRange, err |-> ValueError("math domain error")]
    ELSE pow_value(a, b)

\* mutant: the zero test looks at the left operand
divide_left_zero(a, b) ==
    IF a = Zero
    THEN [val |-> OutOfRange, err |-> ZeroDivisionError("Division by zero")]
    ELSE [val |-> Div(a, b), err |-> None]

divide(a, b) ==
    IF b = Zero
    THEN [val |-> OutOfRange, err |-> ZeroDivisionError("Division by zero")]
    ELSE [val |-> Div(a, b), err |-> None]

apply_op(a, b, op) ==
    IF op = <<"+">> THEN [val |-> Add(a, b), err |-> None]
    ELSE IF op = <<"-">> THEN [val |-> Sub(a, b), err |-> None]
    ELSE IF op = <<"*">> THEN [val |-> Mul(a, b), err |-> None]
    ELSE IF op = <<"/">> THEN divide(a, b)
    ELSE IF op = <<"^">> THEN math_pow(a, b)
    ELSE [val |-> OutOfRange, err |-> ValueError("Unsupported operator")]

\* trace lines: "PUSH val", "UNARY_MINUS a -> res", "a tok b -> res"
PushEntry(val) == [op |-> <<"PUSH">>, a |-> val, b |-> val, res |-> val]

UnaryEntry(a, res) == [op |-> <<"UNARY_MINUS">>, a |-> a, b |-> a, res |-> res]

BinaryEntry(a, tok, b, res) == [op |-> tok, a |-> a, b |-> b, res |-> res]

\* mutant: the negation is not written to the trace
unary_minus_untraced(st, tr) ==
    IF st = <<>>
    THEN [stack |-> st, trace |-> tr, val |-> Zero,
          err |-> ValueError("Insufficient operands for unary minus")]
    ELSE [stack |-> Append(Front(st), Neg(Last(st))), trace |-> tr,
          err |-> None, val |-> Neg(Last(st))]

unary_minus(st, tr) ==
    IF st = <<>>
    THEN [stack |-> st, trace |-> tr, val |-> Zero,
          err |-> ValueError("Insufficient operands for unary minus")]
    ELSE LET a == Last(st)
             res == Neg(a)
         IN  [stack |-> Append(Front(st), res),
              trace |-> Append(tr, UnaryEntry(a, res)),
              err |-> None, val |-> res]

binary_operator(tok, st, tr) ==
    IF Len(st) < 2
    THEN [stack |-> st, trace |-> tr, val |-> Zero,
          err |-> ValueError("Insufficient operands")]
    ELSE LET b == Last(st)
             a == Last(Front(st))
             r == apply_op(a, b, tok)
         IN  IF r.err # None
             THEN [stack |-> Front(Front(st)), trace |-> tr,
                   val |-> Zero, err |-> r.err]
             ELSE [stack |-> Append(Front(Front(st)), r.val),
                   trace |-> Append(tr, BinaryEntry(a, tok, b, r.val)),
                   err |-> None, val |-> r.val]

evaluate_postfix_body(tok, st, tr) ==
    IF is_number(tok)
    THEN LET val == float(tok)
         IN  [stack |-> Append(st, val), trace |-> Append(tr, PushEntry(val)),
              err |-> None, val |-> val]
    ELSE IF tok \in DOMAIN OPERATORS
    THEN IF tok = UMINUS
         THEN unary_minus(st, tr)
         ELSE binary_operator(tok, st, tr)
    ELSE [stack |-> st, trace |-> tr, val |-> Zero,
          err |-> ValueError("Unknown token in evaluate_postfix")]

(***************************************************************************)
(* The input texts.                                                        *)
(***************************************************************************)
\* the GUI's sample list
samples == <<
    <<"3", " ", "+", " ", "4", " ", "*", " ", "2", " ", "/", " ", "(",
      "1", " ", "-", " ", "5", ")", " ", "^", " ", "2", " ", "^", " ", "3">>,
    <<"-", "3", " ", "+", " ", "4", " ", "*", " ", "(", "2", " ", "-", " ", "1", ")">>,
    <<"2", "^", "3", "^", "2">>,
    <<" ", "(", " ", "3", ".", "5", " ", "+", " ", "2", ".", "1", " ",
      ")", " ", "*", " ", "4", " ", "-", " ", "-", "2", " ">>,
    <<"1", "0", " ", "/", " ", "(", "5", "-", "5", ")">>,
    <<"3", " ", "+", " ", "+", " ", "4">>
>>

\* "x" stands for every unsupported character
Alphabet == {"0", "2", ".", " ", "+", "-", "*", "/", "^", "(", ")", "x"}

\* every text of n characters over Alphabet
TextsOfLen(n) == [1..n -> Alphabet]

\* the expressions named in the documentation, and further long ones
Examples == {
    <<"8", "-", "3", "-", "2">>,
    <<"2", "^", "3", "^", "2">>,
    <<"1", "0", "/", "(", "5", "-", "5", ")">>,
    <<"3", "+", "+", "4">>,
    <<"(", "3", "+", "4">>,
    <<"3", "+", "4", ")">>,
    <<"-", "3", "+", "4">>,
    <<"3", "-", "-", "4">>,
    <<"(", "-", "3", ")">>,
    <<"(", "3", ".", "5", "+", "2", ".", "1", ")", "*", "4", "-", "-",
      "2">>,
    <<"1", " ", "1", "+", "*", "1">>,
    <<"0", "/", "0", "*", "*">>,
    <<"5", "^", "5", "5", "5">>,
    <<"-", "2", "^", ".", "5">>,
    <<"2", "^", "-", "2">>,
    <<"1", "/", "0", ")">>,
    <<"(", "1", "/", "0">>,
    <<".", "5", "^", "-", "2", "0", "0", "0">>,
    <<Superscript>>,
    <<"(", Superscript>>,
    <<"2", Superscript, ")">>,
    <<Superscript, ".", ".">>,
    <<"1", "/", "0", ")", Superscript>>
}

BinaryChars == {"+", "-", "*", "/", "^"}

\* a o1 b o2 c
Chains ==
    {<<a, o1, b, o2, c>> : a \in {"0", "2", "3"}, b \in {"0", "2", "3"},
                           c \in {"0", "2", "3"},
                           o1 \in BinaryChars, o2 \in BinaryChars}

LongTexts == Examples \cup Chains \cup {samples[n] : n \in DOMAIN samples}

(***************************************************************************)
(* evaluate_expression(expr): tokenize, infix_to_postfix, evaluate_postfix.*)
(* pc names the function that is running; an exception leaves pc where it *)
(* was raised and sets err; pc = "returned" after the return.              *)
(***************************************************************************)
Init ==
    /\ \/ \E n \in 0..MaxLen : expr \in TextsOfLen(n)
       \/ expr \in LongTexts
    /\ pc = "tokenize"
    /\ i = 0
    /\ tokens = <<>>
    /\ k = 0
    /\ output = <<>>
    /\ opstack = <<>>
    /\ postfix = <<>>
    /\ stack = <<>>
    /\ trace = <<>>
    /\ value = None
    /\ err = None
    /\ input_var = <<>>

Tokenize ==
    /\ pc = "tokenize" /\ err = None
    /\ i < Len(expr)
    /\ LET r == tokenize_body(expr, i, tokens)
       IN  /\ i' = r.i
           /\ tokens' = r.tokens
           /\ err' = r.err
    /\ UNCHANGED <<expr, pc, k, output, opstack, postfix, stack, trace,
                   value, input_var>>

TokenizeReturn ==
    /\ pc = "tokenize" /\ err = None
    /\ i >= Len(expr)
    /\ pc' = "infix_to_postfix"
    /\ UNCHANGED <<expr, i, tokens, k, output, opstack, postfix, stack,
                   trace, value, err, input_var>>

InfixToPostfix ==
    /\ pc = "infix_to_postfix" /\ err = None
    /\ k < Len(tokens)
    /\ LET r == infix_to_postfix_body(tokens[k + 1], output, opstack)
       IN  /\ output' = r.output
           /\ opstack' = r.stack
           /\ err' = r.err
           /\ k' = IF r.err = None THEN k + 1 ELSE k
    /\ UNCHANGED <<expr, pc, i, tokens, postfix, stack, trace, value,
                   input_var>>

InfixToPostfixReturn ==
    /\ pc = "infix_to_postfix" /\ err = None
    /\ k = Len(tokens)
    /\ LET r == infix_to_postfix_end(output, opstack)
       IN  /\ output' = r.output
           /\ opstack' = r.stack
           /\ err' = r.err
           /\ IF r.err = None
              THEN pc' = "evaluate_postfix" /\ postfix' = r.output /\ k' = 0
              ELSE UNCHANGED <<pc, postfix, k>>
    /\ UNCHANGED <<expr, i, tokens, stack, trace, value, input_var>>

EvaluatePostfix ==
    /\ pc = "evaluate_postfix" /\ err = None
    /\ k < Len(postfix)
    /\ LET r == evaluate_postfix_body(postfix[k + 1], stack, trace)
       IN  /\ r.err = None => r.val # OutOfRange
           /\ stack' = r.stack
           /\ trace' = r.trace
           /\ err' = r.err
           /\ k' = IF r.err = None THEN k + 1 ELSE k
    /\ UNCHANGED <<expr, pc, i, tokens, output, opstack, postfix, value,
                   input_var>>

\* mutant: only an empty stack is refused
EvaluatePostfixReturnNonEmpty ==
    /\ pc = "evaluate_postfix" /\ err = None
    /\ k = Len(postfix)
    /\ IF Len(stack) < 1
       THEN /\ err' = ValueError("The expression could not be evaluated to a single value")
            /\ UNCHANGED <<pc, value>>
       ELSE /\ value' = <<stack[1]>>
            /\ pc' = "returned"
            /\ UNCHANGED err
    /\ UNCHANGED <<expr, i, tokens, k, output, opstack, postfix, stack,
                   trace, input_var>>

EvaluatePostfixReturn ==
    /\ pc = "evaluate_postfix" /\ err = None
    /\ k = Len(postfix)
    /\ IF Len(stack) # 1
       THEN /\ err' = ValueError("The expression could not be evaluated to a single value")
            /\ UNCHANGED <<pc, value>>
       ELSE /\ value' = <<stack[1]>>
            /\ pc' = "returned"
            /\ UNCHANGED err
    /\ UNCHANGED <<expr, i, tokens, k, output, opstack, postfix, stack,
                   trace, input_var>>

Next ==
    \/ Tokenize
    \/ TokenizeReturn
    \/ InfixToPostfix
    \/ InfixToPostfixReturn
    \/ EvaluatePostfix
    \/ EvaluatePostfixReturn

Spec == Init /\ [][Next]_vars

(***************************************************************************)
(* The GUI: the input field (input_var) and the handlers that write it.    *)
(***************************************************************************)
RECURSIVE lstrip(_)
lstrip(s) == IF s # <<>> /\ isspace(Head(s)) THEN lstrip(Tail(s)) ELSE s

RECURSIVE rstrip(_)
rstrip(s) == IF s # <<>> /\ isspace(Last(s)) THEN rstrip(Front(s)) ELSE s

strip(s) == rstrip(lstrip(s))

\* self.samples.index(cur), from 0; -1 stands for its ValueError
index(cur) ==
    IF \E n \in DOMAIN samples : samples[n] = cur
    THEN (CHOOSE n \in DOMAIN samples :
              /\ samples[n] = cur
              /\ \A m \in 1..(n - 1) : samples[m] # cur) - 1
    ELSE -1

\* the text insert_sample sets
next_sample(text) ==
    LET cur == strip(text)
        idx == IF index(cur) # -1 THEN (index(cur) + 1) % Len(samples) ELSE 0
    IN  samples[idx + 1]

\* what the user types; the field also holds what insert_sample sets
TypedAlphabet == {" ", "2", "3", "^"}

InitGui ==
    /\ input_var = <<>>
    /\ expr = <<>>
    /\ pc = "idle"
    /\ i = 0
    /\ tokens = <<>>
    /\ k = 0
    /\ output = <<>>
    /\ opstack = <<>>
    /\ postfix = <<>>
    /\ stack = <<>>
    /\ trace = <<>>
    /\ value = None
    /\ err = None

InsertSample ==
    /\ pc = "idle"
    /\ input_var' = next_sample(input_var)
    /\ UNCHANGED engine

ClearAll ==
    /\ pc = "idle"
    /\ input_var' = <<>>
    /\ UNCHANGED engine

TypeChar ==
    /\ pc = "idle"
    /\ Len(input_var) < MaxTyped
    /\ \E ch \in TypedAlphabet : input_var' = Append(input_var, ch)
    /\ UNCHANGED engine

Backspace ==
    /\ pc = "idle"
    /\ input_var # <<>>
    /\ input_var' = Front(input_var)
    /\ UNCHANGED engine

NextGui ==
    \/ InsertSample
    \/ ClearAll
    \/ TypeChar
    \/ Backspace

SpecGui == InitGui /\ [][NextGui]_vars

(***************************************************************************)
(* Vocabulary of the properties.                                           *)
(***************************************************************************)
BinaryTokens == {<<"+">>, <<"-">>, <<"*">>, <<"/">>, <<"^">>}

Mismatched == <<"ValueError", "Mismatched parentheses">>

UnknownToken == <<"ValueError", "Unknown token in infix_to_postfix">>

DivisionByZero == <<"ZeroDivisionError", "Division by zero">>

DomainError == <<"ValueError", "math domain error">>

RangeError == <<"OverflowError", "math range error">>

NotSingleValue ==
    <<"ValueError", "The expression could not be evaluated to a single value">>

\* some ')' has no earlier unmatched '(', or some '(' is never closed
RECURSIVE Unbalanced(_, _)
Unbalanced(toks, depth) ==
    IF toks = <<>> THEN depth > 0
    ELSE IF Head(toks) = <<"(">> THEN Unbalanced(Tail(toks), depth + 1)
    ELSE IF Head(toks) = <<")">>
    THEN depth = 0 \/ Unbalanced(Tail(toks), depth - 1)
    ELSE Unbalanced(Tail(toks), depth)

\* a run of digits and points that float() rejects
Unparsable(tok) ==
    /\ \A n \in 1..Len(tok) : tok[n] \in Digits \cup {".", Superscript}
    /\ \A n \in 1..Len(tok) : tok[n] \notin Digits \/ Superscript \in
          {tok[m] : m \in 1..Len(tok)}

NumberCount(toks) ==
    Cardinality({n \in 1..Len(toks) : toks[n] \notin OpTokens})

\* evaluate_postfix is about to apply the binary operator op to two operands
Applying(op) ==
    /\ pc = "evaluate_postfix" /\ err = None
    /\ k < Len(postfix)
    /\ postfix[k + 1] = op
    /\ Len(stack) >= 2

\* the call goes on: no exception has been raised and a step can be taken
CanStep ==
    /\ err = None
    /\ \/ pc \in {"tokenize", "infix_to_postfix"}
       \/ /\ pc = "evaluate_postfix"
          /\ k < Len(postfix) =>
                LET r == evaluate_postfix_body(postfix[k + 1], stack, trace)
                IN  r.err = None => r.val # OutOfRange

\* once an exception is raised nothing more is computed or returned
Raised == err # None => (value = None /\ pc # "returned")

(***************************************************************************)
(* C1: tokenize emits a '-' as the unary minus token 'u-' exactly when no  *)
(* token has been emitted yet or the token emitted just before is one of   *)
(* + - * / ^ u- ( ; after a number or ')' it emits the binary '-'.  Every  *)
(* '-' read so far has given exactly one of the two tokens.                *)
(***************************************************************************)
C1_Context == {<<"+">>, <<"-">>, <<"*">>, <<"/">>, <<"^">>, <<"u", "-">>, <<"(">>}

C1_UnaryMinus ==
    /\ \A n \in 1..Len(tokens) :
          /\ tokens[n] = <<"u", "-">> => (n = 1 \/ tokens[n - 1] \in C1_Context)
          /\ tokens[n] = <<"-">> => (n > 1 /\ tokens[n - 1] \notin C1_Context)
    /\ Count(SubSeq(expr, 1, i), "-") =
          Cardinality({n \in 1..Len(tokens) :
                          tokens[n] \in {<<"u", "-">>, <<"-">>}})
    /\ pc # "tokenize" =>
          /\ expr = <<"-", "3", "+", "4">> =>
                tokens = <<UMINUS, <<"3">>, <<"+">>, <<"4">>>>
          /\ expr = <<"3", "-", "-", "4">> =>
                tokens = <<<<"3">>, <<"-">>, UMINUS, <<"4">>>>
          /\ expr = <<"(", "-", "3", ")">> =>
                tokens = <<<<"(">>, UMINUS, <<"3">>, <<")">>>>

\* "3--4" is tokenized: a binary '-' after a number, a unary one after it
C1_Witness ==
    /\ pc = "infix_to_postfix"
    /\ tokens = <<<<"3">>, <<"-">>, <<"u", "-">>, <<"4">>>>

(***************************************************************************)
(* C2: for a parenthesis-free chain a o1 b o2 c of numbers and binary      *)
(* operators the postfix is a b o1 c o2 when prec(o2) <= prec(o1) and o2   *)
(* is left-associative, and a b c o2 o1 when prec(o2) > prec(o1) or        *)
(* o1 = o2 = '^'.  "8-3-2" gives 8 3 - 2 - and 3; "2^3^2" gives            *)
(* 2 3 2 ^ ^ and 512.                                                      *)
(***************************************************************************)
C2_Prec(o) == IF o \in {<<"+">>, <<"-">>} THEN 2 ELSE IF o = <<"^">> THEN 4 ELSE 3

C2_IsChain ==
    /\ pc # "tokenize"
    /\ Len(tokens) = 5
    /\ \A n \in {1, 3, 5} : is_number(tokens[n])
    /\ \A n \in {2, 4} : tokens[n] \in BinaryTokens

C2_Expected ==
    LET a == tokens[1]
        o1 == tokens[2]
        b == tokens[3]
        o2 == tokens[4]
        c == tokens[5]
    IN  IF C2_Prec(o2) <= C2_Prec(o1) /\ o2 # <<"^">>
        THEN <<a, b, o1, c, o2>>
        ELSE <<a, b, c, o2, o1>>

C2_Grouping ==
    /\ C2_IsChain =>
          /\ pc = "infix_to_postfix" => err = None
          /\ pc # "infix_to_postfix" => postfix = C2_Expected
    /\ (expr = <<"8", "-", "3", "-", "2">> /\ pc # "tokenize") =>
          /\ err = None
          /\ pc # "returned" => CanStep
          /\ pc = "returned" =>
                /\ postfix = <<<<"8">>, <<"3">>, <<"-">>, <<"2">>, <<"-">>>>
                /\ value = <<[num |-> 3, den |-> 1]>>
    /\ (expr = <<"2", "^", "3", "^", "2">> /\ pc # "tokenize") =>
          /\ err = None
          /\ pc # "returned" => CanStep
          /\ pc = "returned" =>
                /\ postfix = <<<<"2">>, <<"3">>, <<"2">>, <<"^">>, <<"^">>>>
                /\ value = <<[num |-> 512, den |-> 1]>>

\* "2^3^2" has returned 512
C2_Witness ==
    /\ expr = <<"2", "^", "3", "^", "2">>
    /\ pc = "returned"
    /\ value = <<[num |-> 512, den |-> 1]>>

(***************************************************************************)
(* C3, as claimed: for every token sequence with unbalanced parentheses    *)
(* infix_to_postfix fails with ValueError "Mismatched parentheses" and     *)
(* returns no postfix; with balanced parentheses that error is never       *)
(* raised.                                                                 *)
(***************************************************************************)
C3_AsClaimed ==
    pc # "tokenize" =>
        IF Unbalanced(tokens, 0)
        THEN /\ pc = "infix_to_postfix"
             /\ err # None => err = Mismatched
        ELSE err # Mismatched

(***************************************************************************)
(* C3, amended: for every token sequence with unbalanced parentheses       *)
(* infix_to_postfix fails with a ValueError and returns no postfix; the    *)
(* error is "Mismatched parentheses", unless a number-like token that      *)
(* float() rejects (a '.' without a digit, a run with a digit character    *)
(* that is not decimal) is met first, which raises "Unknown token".  With  *)
(* balanced parentheses the mismatched-parentheses error is never raised.  *)
(***************************************************************************)
C3_Mismatched ==
    pc # "tokenize" =>
        IF Unbalanced(tokens, 0)
        THEN /\ pc = "infix_to_postfix"
             /\ postfix = <<>> /\ value = None
             /\ err = None => CanStep
             /\ err # None =>
                   \/ err = Mismatched
                   \/ err = UnknownToken /\ Unparsable(tokens[k + 1])
             /\ (\A n \in 1..Len(tokens) : ~Unparsable(tokens[n])) =>
                   err \in {None, Mismatched}
        ELSE err # Mismatched

\* a '(' that is never closed is found when the stack is unloaded
C3_Witness ==
    /\ pc = "infix_to_postfix"
    /\ err = Mismatched
    /\ k = Len(tokens)
    /\ Len(tokens) > 1

(***************************************************************************)
(* C4: when evaluate_postfix applies '/' to two operands and the right one *)
(* (popped first) is zero, it raises ZeroDivisionError "Division by zero"  *)
(* and returns neither value nor trace; with a non-zero right operand the  *)
(* division does not fail.  "10/(5-5)" fails this way.                     *)
(***************************************************************************)
C4_Step ==
    Applying(<<"/">>) =>
        IF Last(stack) = Zero
        THEN err' = DivisionByZero /\ value' = None /\ pc' = pc
        ELSE err' = None

C4_State ==
    /\ Raised
    /\ err = DivisionByZero =>
          /\ pc = "evaluate_postfix"
          /\ postfix[k + 1] = <<"/">>
    /\ expr = <<"1", "0", "/", "(", "5", "-", "5", ")">> =>
          /\ pc # "returned"
          /\ IF err = None THEN CanStep ELSE err = DivisionByZero

C4_DivisionByZero == []C4_State /\ [][C4_Step]_vars

\* "10/(5-5)" has raised ZeroDivisionError
C4_Witness ==
    /\ expr = <<"1", "0", "/", "(", "5", "-", "5", ")">>
    /\ err = DivisionByZero

(***************************************************************************)
(* C5, as claimed: when the token sequence holds a binary operator token   *)
(* directly followed by another binary operator token, evaluate_expression *)
(* never returns a value.                                                  *)
(***************************************************************************)
C5_ConsecutiveBinary ==
    \E n \in 1..(Len(tokens) - 1) :
        tokens[n] \in BinaryTokens /\ tokens[n + 1] \in BinaryTokens

C5_NeverReturns ==
    (pc # "tokenize" /\ C5_ConsecutiveBinary) => pc # "returned"

(***************************************************************************)
(* C6, as claimed: after a successful evaluate_expression the trace has as *)
(* many entries as the postfix sequence has Number tokens.                 *)
(***************************************************************************)
C6_AsClaimed == pc = "returned" => Len(trace) = NumberCount(postfix)

(***************************************************************************)
(* C6, amended: after a successful evaluate_expression the trace has as    *)
(* many entries as the postfix sequence has tokens: one push entry per     *)
(* Number token and one entry per operator token.                          *)
(***************************************************************************)
C6_TraceLength ==
    /\ pc = "returned" =>
          /\ Len(trace) = Len(postfix)
          /\ Cardinality({n \in 1..Len(trace) : trace[n].op = <<"PUSH">>})
                = NumberCount(postfix)
    /\ (pc = "evaluate_postfix" /\ err = None) => Len(trace) = k

\* an expression with an operator has returned
C6_Witness ==
    /\ pc = "returned"
    /\ NumberCount(postfix) < Len(postfix)

(***************************************************************************)
(* C7: what the text holds, read off the text alone.                       *)
(***************************************************************************)
Accepted ==
    Digits \cup {Superscript, ".", " ", "+", "-", "*", "/", "^", "(", ")"}

BadCharacter == \E n \in 1..Len(expr) : expr[n] \notin Accepted

\* two points in one run of digits and points
BadLiteral ==
    \E n \in 1..Len(expr) : \E m \in (n + 1)..Len(expr) :
        /\ expr[n] = "." /\ expr[m] = "."
        /\ \A j \in n..m : expr[j] \in Digits \cup {".", Superscript}

TokenizerErrors ==
    {<<"ValueError", "Unsupported character">>,
     <<"ValueError", "Invalid numeric literal">>}

\* each stage has run to completion before the next one starts
C7_Stages ==
    /\ pc = "tokenize" =>
          /\ k = 0 /\ output = <<>> /\ opstack = <<>> /\ postfix = <<>>
          /\ stack = <<>> /\ trace = <<>>
    /\ pc = "infix_to_postfix" =>
          i = Len(expr) /\ postfix = <<>> /\ stack = <<>> /\ trace = <<>>
    /\ pc \in {"evaluate_postfix", "returned"} =>
          i = Len(expr) /\ opstack = <<>> /\ postfix = output
    /\ pc = "returned" => k = Len(postfix) /\ err = None

C7_Order ==
    pc' # pc =>
        <<pc, pc'>> \in {<<"tokenize", "infix_to_postfix">>,
                         <<"infix_to_postfix", "evaluate_postfix">>,
                         <<"evaluate_postfix", "returned">>}

(***************************************************************************)
(* C7, as claimed: a text that tokenizes and has mismatched parentheses    *)
(* raises the mismatched-parentheses error.                                *)
(***************************************************************************)
C7_AsClaimed ==
    (~BadCharacter /\ ~BadLiteral /\ pc # "tokenize" /\ Unbalanced(tokens, 0)
        /\ err # None) => err = Mismatched

(***************************************************************************)
(* C7, amended: evaluate_expression runs tokenize, infix_to_postfix and    *)
(* evaluate_postfix in that order, each to completion, and raises the      *)
(* first error met.  An unsupported character or a literal with two points *)
(* raises the tokenizer's error whatever else is wrong.  A text that       *)
(* tokenizes and has mismatched parentheses fails in infix_to_postfix,     *)
(* also when it holds a division by zero: with the mismatched-parentheses  *)
(* error, or with "Unknown token" when a number-like token that float()    *)
(* rejects is met first.  ZeroDivisionError is raised only after tokenize  *)
(* and infix_to_postfix have both returned.                                *)
(***************************************************************************)
C7_State ==
    /\ C7_Stages
    /\ Raised
    /\ IF BadCharacter \/ BadLiteral
       THEN pc = "tokenize" /\ (err # None => err \in TokenizerErrors)
       ELSE pc = "tokenize" => err = None
    /\ (pc # "tokenize" /\ Unbalanced(tokens, 0)) =>
          /\ pc = "infix_to_postfix"
          /\ err = None => CanStep
          /\ err # None =>
                \/ err = Mismatched
                \/ err = UnknownToken /\ Unparsable(tokens[k + 1])
    /\ err = DivisionByZero =>
          /\ pc = "evaluate_postfix"
          /\ ~BadCharacter /\ ~BadLiteral /\ ~Unbalanced(tokens, 0)

C7_FirstError == []C7_State /\ [][C7_Order]_vars

\* "1/0)": the unmatched ')' is reported, the division by zero is not
C7_Witness ==
    /\ expr = <<"1", "/", "0", ")">>
    /\ pc = "infix_to_postfix"
    /\ err = Mismatched

(***************************************************************************)
(* C8: once evaluate_postfix has consumed every postfix token without a    *)
(* failure, it returns a value if and only if exactly one value is on the  *)
(* stack, and the value returned is that element; with no value (an empty  *)
(* or blank expression) or with two or more it raises the ValueError that  *)
(* the expression does not reduce to a single value.                       *)
(***************************************************************************)
C8_Step ==
    (pc = "evaluate_postfix" /\ err = None /\ k = Len(postfix)) =>
        IF Len(stack) = 1
        THEN pc' = "returned" /\ value' = <<stack[1]>> /\ err' = None
        ELSE err' = NotSingleValue /\ value' = None /\ pc' = pc

C8_State ==
    /\ pc = "returned" =>
          Len(stack) = 1 /\ value = <<stack[1]>> /\ k = Len(postfix)
    /\ err = NotSingleValue =>
          pc = "evaluate_postfix" /\ k = Len(postfix) /\ Len(stack) # 1
    /\ (\A n \in 1..Len(expr) : expr[n] = " ") =>
          /\ pc # "returned"
          /\ err # None => (err = NotSingleValue /\ stack = <<>>)

C8_SingleValue == []C8_State /\ [][C8_Step]_vars

\* two numbers with no operator between them are left on the stack
C8_Witness ==
    /\ err = NotSingleValue
    /\ Len(stack) >= 2

C9_Step ==
    Applying(<<"^">>) =>
        LET b == Last(stack)
            a == Last(Front(stack))
        IN  IF (a.num = 0 /\ b.num < 0) \/ (a.num < 0 /\ b.den # 1)
            THEN err' = DomainError /\ value' = None /\ pc' = pc
            ELSE \/ /\ err' = None
                    /\ k' = k + 1
                    /\ Front(stack') = Front(Front(stack))
                    /\ trace' = Append(trace, [op |-> <<"^">>, a |-> a, b |-> b,
                                               res |-> Last(stack')])
                 \/ err' = RangeError /\ value' = None /\ pc' = pc

C9_State ==
    /\ err = DivisionByZero => postfix[k + 1] = <<"/">>
    /\ err \in {DomainError, RangeError} =>
          pc = "evaluate_postfix" /\ postfix[k + 1] = <<"^">>
    /\ err # None => err[1] \in {"ValueError", "ZeroDivisionError", "OverflowError"}

C10_Cycle ==
    [][InsertSample =>
          \A n \in DOMAIN samples :
              input_var = samples[n] =>
                  input_var' = samples[(n % Len(samples)) + 1]]_vars

====
